---------------------------- MODULE Spec2Model ----------------------------
(***************************************************************************)
(* Model of the sketch database of RMapAlign3N (src/src/options.cpp):      *)
(*   - candidate generation: for_all_contiguous_window_ranges and          *)
(*     best_distinct_matches_in_contiguous_window_ranges (SpecCand), and   *)
(*     the scan with a consumer that may return false (SpecConsume);       *)
(*   - target ingestion: database::add_target, add_all_window_sketches,    *)
(*     the batch executor and add_sketch_batch (Spec), and the same under  *)
(*     fair scheduling of both threads (SpecFair);                         *)
(*   - the match accumulator: matches_sorter and accumulate_matches        *)
(*     (SpecAcc);                                                          *)
(*   - the hash multimap under the inserts of add_sketch_batch and under   *)
(*     remove_ambiguous_features (SpecMap);                                *)
(*   - the database file: write followed by read (SpecIO);                 *)
(*   - the windows of a sequence counted by add_all_window_sketches        *)
(*     (SpecWin);                                                          *)
(*   - the percentages of get_query_options (SpecOpt).                     *)
(***************************************************************************)
EXTENDS Integers, Sequences, FiniteSets, TLC

(***************************************************************************)
(* Bounds of the candidate generation model.                               *)
(***************************************************************************)
\* longest match list
MaxMatches == 4
\* largest window id in a match list
MaxMatchWin == 3
\* largest candidate_generation_rules::maxWindowsInRange
MaxWinRange == 3
\* largest candidate_generation_rules::maxCandidates
MaxCand == 2

(***************************************************************************)
(* Bounds of the ingestion model.                                          *)
(***************************************************************************)
\* number of add_target calls
MaxCalls == 3
\* largest number of windows the sketcher yields for one sequence
MaxWindows == 3
\* batch_processing_options::batch_size (1000 in make_sketch_inserter)
BatchSize == 2
\* batch_processing_options::queue_size (100 in make_sketch_inserter)
QueueSize == 1
\* database::maxLocsPerFeature_ as set by max_locations_per_feature(n)
MaxLocsPerFeature == 2

\* (mutant) the inserter is made with two consumer threads
ConcurrencyTwo == 1 + 1

\* execOpt.concurrency(1): number of consumer threads of the executor
Concurrency == 1

VARIABLES
    \* ---- ingestion: database ----
    features_,      \* feature_store: feature -> bucket (sequence of locations)
    targets_,       \* target_store: sequence of [name, windows]
    name2tax_,      \* std::map<target_name,target_id>, as a function
    inserter_,      \* unique_ptr<batch_executor>: "null" or "live"
    \* ---- ingestion: the executor behind inserter_ ----
    batch,          \* producer-side current batch (sequence of window_sketch)
    queue,          \* bounded queue of full batches
    closed,         \* the queue was closed by the destructor
    valid,          \* batch_executor::valid()
    cstate,         \* per consumer thread: "idle", "processing", "dead"
    cbatch,         \* per consumer thread: the batch it was handed
    cdone,          \* per consumer thread: items of cbatch already processed
    \* ---- ingestion: the thread that calls add_target ----
    mpc,            \* its position
    curTgt,         \* add_all_window_sketches: tgt
    win,            \* add_all_window_sketches: win
    seqWindows,     \* number of windows the sketcher yields for seq
    calls,          \* number of add_target calls made
    lastResult,     \* what the last call of the thread returned or threw
    callName,       \* add_target: the argument sid of the last call
    signal,         \* add_target: the error the last call signalled
    accepted,       \* history: [name, id] of the calls that returned true
    \* ---- ingestion: history ----
    enqueued,       \* window sketches filled into a next_item() slot, in order
    consumed,       \* window sketches processed by add_sketch_batch, in order
    everFailed,     \* the insertion callback has thrown at some time
    \* ---- candidate generation ----
    matches,        \* const Locations& matches: sequence of locations
    numWindows,     \* window_id numWindows (rules.maxWindowsInRange)
    maxCandidates,  \* rules.maxCandidates
    cpc,            \* position in for_all_contiguous_window_ranges
    fst,            \* iterator fst (index into matches)
    lst,            \* iterator lst (index into matches)
    hits,           \* hit_count hits
    curBest,        \* match_candidate curBest
    top_,           \* best_distinct_matches_in_contiguous_window_ranges::top_
    emitted,        \* history: the candidates passed to consume, in order
    refuseAt,       \* input: the call at which consume returns false
                    \* (0: it returns true at every call)
    \* ---- match accumulator (matches_sorter) ----
    locs_,          \* match_locations locs_
    offsets_,       \* std::vector<std::size_t> offsets_
    temp_,          \* match_locations temp_
    accOps,         \* number of calls made on the accumulator
    accLast,        \* the last call made on the accumulator
    preSort,        \* history: locs_ as it was when sort() was last called
    accSketch,      \* history: the sketch of the last call if that was
                    \* accumulate_matches, else <<>>
    \* ---- hash_multimap in detail ----
    table,          \* the table: counters, keys and buckets
    numInserts,     \* number of ingestion inserts made
    lastKey,        \* history: the feature of the last ingestion insert,
                    \* 0 if the last operation was not an insert
    maxambigArg,    \* the argument of the last remove_ambiguous_features,
                    \* -1 if the last operation was not a removal
    removed,        \* the number of features that removal returned
    \* ---- database file ----
    file,           \* the words of the database file
    db2,            \* the database that reads the file: [targets, features]
    what,           \* the scope of the read
    ioPc,           \* "built", "written" or "read"
    \* ---- windows of one sequence (add_all_window_sketches) ----
    seqLen,         \* |seq|
    winlen,         \* sketcher window length w
    winstride,      \* sketcher window stride s
    wbeg,           \* begin of the next window
    wcnt,           \* window_id win of add_all_window_sketches
    wpc,            \* "off", "sketching" or "returned"
    \* ---- query options (get_query_options) ----
    covMin,         \* opt.classify.covMin, in units of 1/Unit
    hitsCutoff,     \* opt.classify.hitsCutoff, in units of 1/Unit
    covMinArg,      \* history: covMin as parsed from the command line
    hitsCutoffArg,  \* history: hitsCutoff as parsed from the command line
    optPc           \* "off", "parsed" or "done"

\* the arguments of for_all_contiguous_window_ranges
candInput == <<matches, numWindows, maxCandidates, refuseAt>>

candVars == <<candInput, cpc, fst, lst, hits, curBest, top_, emitted>>

dbVars == <<features_, targets_, name2tax_, inserter_>>

execVars == <<batch, queue, closed, valid, cstate, cbatch, cdone>>

mainVars == <<mpc, curTgt, win, seqWindows, calls, lastResult>>

histVars == <<enqueued, consumed, everFailed>>

callVars == <<callName, signal, accepted>>

ingestVars == <<dbVars, execVars, mainVars, histVars, callVars>>

accVars == <<locs_, offsets_, temp_, accOps, accLast, preSort, accSketch>>

\* the variables of the query-side structures other than the candidate list
mapVars == <<table, numInserts, lastKey, maxambigArg, removed>>

ioVars == <<file, db2, what, ioPc>>

winVars == <<seqLen, winlen, winstride, wbeg, wcnt, wpc>>

optVars == <<covMin, hitsCutoff, covMinArg, hitsCutoffArg, optPc>>

sideVars == <<accVars, mapVars, ioVars, winVars, optVars>>

vars == <<ingestVars, candVars, sideVars>>

(***************************************************************************)
(* database::location and its order (target first, window second).         *)
(***************************************************************************)
\* std::numeric_limits<target_id>::max() of a narrow target_id type
target_id_max == 2

\* the locations a match list can hold: ids of existing targets lie below
\* max_target_count() = numeric_limits<target_id>::max()
location == [tgt : 0..(target_id_max - 1), win : 0..MaxMatchWin]

LocLess(a, b) ==
    IF a.tgt < b.tgt THEN TRUE
    ELSE IF a.tgt > b.tgt THEN FALSE
    ELSE a.win < b.win

\* @pre of for_all_contiguous_window_ranges: sorted by target, then window
IsSortedLocs(s) ==
    \A i \in 1..(Len(s) - 1) : ~LocLess(s[i + 1], s[i])

SortedMatchLists ==
    UNION { { s \in [1..n -> location] : IsSortedLocs(s) } : n \in 0..MaxMatches }

\* a default constructed match_candidate has tgt = numeric_limits::max()
nulltgt == target_id_max

match_candidate == [tgt |-> nulltgt, hits |-> 0, beg |-> 0, end |-> 0]

FirstCandidate(loc, h) ==
    [tgt |-> loc.tgt, hits |-> h, beg |-> loc.win, end |-> loc.win]

(***************************************************************************)
(* best_distinct_matches_in_contiguous_window_ranges::insert               *)
(***************************************************************************)
\* (mutant) ties compare as greater: a lower_bound instead of an upper_bound
greater_or_equal(a, b) == a.hits >= b.hits

\* the comparison lambda 'greater'
greater(a, b) == a.hits > b.hits

\* std::upper_bound(top_.begin(), top_.end(), cand, greater): the first
\* position whose element e satisfies greater(cand, e), else end (Len + 1)
UpperBound(list, cand) ==
    LET hit == { i \in 1..Len(list) : greater(cand, list[i]) }
    IN  IF hit = {} THEN Len(list) + 1
        ELSE CHOOSE i \in hit : \A j \in hit : i <= j

\* std::vector::insert(i, cand)
VecInsert(list, i, cand) ==
    SubSeq(list, 1, i - 1) \o <<cand>> \o SubSeq(list, i, Len(list))

\* (mutant) the list is never cut back to maxCandidates
VecNoTruncate(list, n) == list

\* std::vector::resize(n) for n <= size
VecTruncate(list, n) ==
    IF Len(list) > n THEN SubSeq(list, 1, n) ELSE list

insert(list, cand, maxCand) ==
    LET i == UpperBound(list, cand)
    IN  IF i # Len(list) + 1 \/ Len(list) < maxCand
        THEN VecTruncate(VecInsert(list, i, cand), maxCand)
        ELSE list

(***************************************************************************)
(* for_all_contiguous_window_ranges, one action per loop iteration.  The   *)
(* consumer is the lambda of the best_distinct_... constructor, which      *)
(* calls insert and returns its result (always true: refuseAt = 0), or a   *)
(* consumer that does the same and returns false at its refuseAt-th call.  *)
(***************************************************************************)
\* the largest call at which a consumer returns false
MaxRefuseAt == 2

\* the result of the call of consume that comes next
ConsumeResult == Len(emitted) + 1 # refuseAt

\* (mutant) off by one: a range of numWindows + 1 windows stays in range
RECURSIVE AdvanceFstOffByOne(_, _, _)
AdvanceFstOffByOne(f, l, h) ==
    IF f # l /\ (matches[l].win - matches[f].win) > numWindows
    THEN AdvanceFstOffByOne(f + 1, l, h - 1)
    ELSE <<f, h>>

\* (mutant) the left side moves but the hits that fall out are not subtracted
RECURSIVE AdvanceFstKeepHits(_, _, _)
AdvanceFstKeepHits(f, l, h) ==
    IF f # l /\ (matches[l].win - matches[f].win) >= numWindows
    THEN AdvanceFstKeepHits(f + 1, l, h)
    ELSE <<f, h>>

\* inner loop: subtract hits to the left that fall out of range
RECURSIVE AdvanceFst(_, _, _)
AdvanceFst(f, l, h) ==
    IF f # l /\ (matches[l].win - matches[f].win) >= numWindows
    THEN AdvanceFst(f + 1, l, h - 1)
    ELSE <<f, h>>

\* (mutant) a range with the same hit count replaces the best range
TrackBestOnTies(best, f, l, h) ==
    IF h >= best.hits
    THEN [best EXCEPT !.hits = h, !.beg = matches[f].win, !.end = matches[l].win]
    ELSE best

\* (mutant) the new best keeps the old left end of its range
TrackBestStaleBeg(best, f, l, h) ==
    IF h > best.hits
    THEN [best EXCEPT !.hits = h, !.end = matches[l].win]
    ELSE best

\* track best of the local sub-ranges
TrackBest(best, f, l, h) ==
    IF h > best.hits
    THEN [best EXCEPT !.hits = h, !.beg = matches[f].win, !.end = matches[l].win]
    ELSE best

\* list empty: return at once
CandEmpty ==
    /\ UNCHANGED <<ingestVars, sideVars>>
    /\ cpc = "start"
    /\ Len(matches) = 0
    /\ cpc' = "done"
    /\ UNCHANGED <<candInput, fst, lst, hits,
                   curBest, top_, emitted>>

\* first entry in list
CandFirst ==
    /\ UNCHANGED <<ingestVars, sideVars>>
    /\ cpc = "start"
    /\ Len(matches) > 0
    /\ fst' = 1
    /\ hits' = 1
    /\ curBest' = FirstCandidate(matches[1], 1)
    /\ lst' = 2
    /\ cpc' = "loop"
    /\ UNCHANGED <<candInput, top_, emitted>>

\* loop body, lst->tgt == curBest.tgt
CandSameTarget ==
    /\ UNCHANGED <<ingestVars, sideVars>>
    /\ cpc = "loop"
    /\ lst <= Len(matches)
    /\ matches[lst].tgt = curBest.tgt
    /\ LET r == AdvanceFst(fst, lst, hits + 1)
       IN  /\ fst' = r[1]
           /\ hits' = r[2]
           /\ curBest' = TrackBest(curBest, r[1], lst, r[2])
    /\ lst' = lst + 1
    /\ UNCHANGED <<candInput, cpc, top_, emitted>>

\* loop body, end of current target: consume(curBest), reset to new target
CandNewTarget ==
    /\ UNCHANGED <<ingestVars, sideVars>>
    /\ cpc = "loop"
    /\ lst <= Len(matches)
    /\ matches[lst].tgt # curBest.tgt
    /\ ConsumeResult
    /\ top_' = insert(top_, curBest, maxCandidates)
    /\ emitted' = Append(emitted, curBest)
    /\ fst' = lst
    /\ hits' = 1
    /\ curBest' = FirstCandidate(matches[lst], 1)
    /\ lst' = lst + 1
    /\ UNCHANGED <<candInput, cpc>>

\* (mutant) the result of consume is ignored: the scan goes on
CandAbortIgnored ==
    /\ UNCHANGED <<ingestVars, sideVars>>
    /\ cpc = "loop"
    /\ lst <= Len(matches)
    /\ matches[lst].tgt # curBest.tgt
    /\ ~ConsumeResult
    /\ top_' = insert(top_, curBest, maxCandidates)
    /\ emitted' = Append(emitted, curBest)
    /\ fst' = lst
    /\ hits' = 1
    /\ curBest' = FirstCandidate(matches[lst], 1)
    /\ lst' = lst + 1
    /\ UNCHANGED <<candInput, cpc>>

\* loop body, end of current target: consume(curBest) returns false and the
\* function returns
CandAbort ==
    /\ UNCHANGED <<ingestVars, sideVars>>
    /\ cpc = "loop"
    /\ lst <= Len(matches)
    /\ matches[lst].tgt # curBest.tgt
    /\ ~ConsumeResult
    /\ top_' = insert(top_, curBest, maxCandidates)
    /\ emitted' = Append(emitted, curBest)
    /\ cpc' = "aborted"
    /\ UNCHANGED <<candInput, fst, lst, hits, curBest>>

\* (mutant) the loop ends without the final consume(curBest)
CandFinishNoEmit ==
    /\ UNCHANGED <<ingestVars, sideVars>>
    /\ cpc = "loop"
    /\ lst > Len(matches)
    /\ cpc' = "done"
    /\ UNCHANGED <<candInput, fst, lst, hits, curBest,
                   top_, emitted>>

\* after the loop: consume(curBest) for the last target
CandFinish ==
    /\ UNCHANGED <<ingestVars, sideVars>>
    /\ cpc = "loop"
    /\ lst > Len(matches)
    /\ top_' = insert(top_, curBest, maxCandidates)
    /\ emitted' = Append(emitted, curBest)
    /\ cpc' = "done"
    /\ UNCHANGED <<candInput, fst, lst, hits, curBest>>

CandInit ==
    /\ matches \in SortedMatchLists
    /\ numWindows \in 1..MaxWinRange
    /\ maxCandidates \in 1..MaxCand
    /\ cpc = "start"
    /\ fst = 1
    /\ lst = 1
    /\ hits = 0
    /\ curBest = match_candidate
    /\ top_ = <<>>
    /\ emitted = <<>>
    /\ refuseAt = 0

CandNext ==
    \/ CandEmpty
    \/ CandFirst
    \/ CandSameTarget
    \/ CandNewTarget
    \/ CandFinish

\* a consumer that returns false at one of its calls
ConsumeInit ==
    /\ matches \in SortedMatchLists
    /\ numWindows \in 1..MaxWinRange
    /\ maxCandidates = MaxCand
    /\ refuseAt \in 0..MaxRefuseAt
    /\ cpc = "start"
    /\ fst = 1
    /\ lst = 1
    /\ hits = 0
    /\ curBest = match_candidate
    /\ top_ = <<>>
    /\ emitted = <<>>

ConsumeNext ==
    \/ CandNext
    \/ CandAbort


(***************************************************************************)
(* Ingestion: inputs.                                                      *)
(***************************************************************************)
\* feature values the sketcher can produce
Features == {1, 2}

\* target names passed to add_target
Names == {"a", ""}

\* the sketches of a window: distinct features, sorted ascending
Sketches == { <<1>>, <<1, 2>> }

\* the consumer threads of the executor
Consumers == 1..Concurrency

\* struct window_sketch
window_sketch(t, w, sk) == [tgt |-> t, win |-> w, sk |-> sk]

\* location{win, tgt}
Loc(w, t) == [tgt |-> t, win |-> w]

(***************************************************************************)
(* hash_multimap: a bucket is the sequence of the locations of a feature.  *)
(***************************************************************************)
\* insert(feature, location): append to the feature's bucket
MapInsert(map, f, loc) == [map EXCEPT ![f] = Append(@, loc)]

\* shrink(iter, cap): truncate the bucket to its first cap entries
MapShrink(map, f, cap) ==
    [map EXCEPT ![f] = IF Len(@) > cap THEN SubSeq(@, 1, cap) ELSE @]

(***************************************************************************)
(* database::add_sketch_batch: the body of the loop over a sketch's        *)
(* features, and the loop itself.                                          *)
(***************************************************************************)
\* (mutant) the bucket is not shrunk back to maxLocsPerFeature_
InsertFeatureNoShrink(map, f, ws) == MapInsert(map, f, Loc(ws.win, ws.tgt))

InsertFeature(map, f, ws) ==
    LET m == MapInsert(map, f, Loc(ws.win, ws.tgt))
    IN  IF Len(m[f]) > MaxLocsPerFeature
        THEN MapShrink(m, f, MaxLocsPerFeature)
        ELSE m

RECURSIVE InsertSketch(_, _, _)
InsertSketch(map, ws, i) ==
    IF i > Len(ws.sk) THEN map
    ELSE InsertSketch(InsertFeature(map, ws.sk[i], ws), ws, i + 1)

\* (mutant) the batch is walked from its last window sketch to its first
BatchItemReversed(b, done) == b[Len(b) - done]

\* the range-for over the batch: the item processed after 'done' items
BatchItem(b, done) == b[done + 1]

(***************************************************************************)
(* database::make_sketch_inserter: a fresh executor.                       *)
(***************************************************************************)
FreshExecutor ==
    /\ batch' = <<>>
    /\ queue' = <<>>
    /\ closed' = FALSE
    /\ valid' = TRUE
    /\ cstate' = [c \in Consumers |-> "idle"]
    /\ cbatch' = [c \in Consumers |-> <<>>]
    /\ cdone' = [c \in Consumers |-> 0]

(***************************************************************************)
(* database::add_target (the thread that builds the database).             *)
(***************************************************************************)
\* (mutant) one target more than numeric_limits<target_id>::max()
max_target_count_plus_one == target_id_max + 1

\* std::numeric_limits<target_id>::max()
max_target_count == target_id_max

target_count == Len(targets_)

get_target(id) == targets_[id + 1]

\* finds exact target names
target_with_name(name) ==
    IF name = "" THEN nulltgt
    ELSE IF name \notin DOMAIN name2tax_ THEN nulltgt
    ELSE name2tax_[name]

\* (mutant) the validity of the executor is read without the null test
add_target_failed_no_null_test == ~valid

add_target_failed == inserter_ = "live" /\ ~valid

\* 1. target_count >= max_target_count: signal target_limit_exceeded and
\* return false
AddTargetLimit ==
    /\ mpc = "idle"
    /\ calls < MaxCalls
    /\ target_count >= max_target_count
    /\ \E name \in Names : callName' = name
    /\ calls' = calls + 1
    /\ signal' = "target_limit_exceeded"
    /\ lastResult' = "false"
    /\ UNCHANGED <<dbVars, execVars, mpc, curTgt, win, seqWindows, histVars,
                   accepted, candVars, sideVars>>

\* (mutant) the target is pushed before the name is looked up
AddTargetDuplicatePushes ==
    /\ mpc = "idle"
    /\ calls < MaxCalls
    /\ target_count < max_target_count
    /\ \E name \in Names :
          /\ name \in DOMAIN name2tax_
          /\ callName' = name
          /\ targets_' = Append(targets_, [name |-> name, windows |-> 0])
          /\ calls' = calls + 1
          /\ lastResult' = "false"
    /\ signal' = "none"
    /\ UNCHANGED <<features_, name2tax_, inserter_, execVars, mpc, curTgt, win,
                   seqWindows, histVars, accepted, candVars, sideVars>>

\* 2. the name is already mapped: return false
AddTargetDuplicate ==
    /\ mpc = "idle"
    /\ calls < MaxCalls
    /\ target_count < max_target_count
    /\ \E name \in Names :
          /\ name \in DOMAIN name2tax_
          /\ callName' = name
          /\ calls' = calls + 1
          /\ lastResult' = "false"
    /\ signal' = "none"
    /\ UNCHANGED <<dbVars, execVars, mpc, curTgt, win, seqWindows, histVars,
                   accepted, candVars, sideVars>>

\* 3./4. assign tgt = targets_.size(), push the target, map its name, and
\* enter add_all_window_sketches, which makes the inserter if there is none
AddTargetStart ==
    /\ mpc = "idle"
    /\ calls < MaxCalls
    /\ target_count < max_target_count
    /\ \E name \in Names, n \in 0..MaxWindows :
          /\ name \notin DOMAIN name2tax_
          /\ callName' = name
          /\ curTgt' = target_count
          /\ targets_' = Append(targets_, [name |-> name, windows |-> 0])
          /\ name2tax_' = [x \in DOMAIN name2tax_ \cup {name} |->
                             IF x = name THEN target_count ELSE name2tax_[x]]
          /\ seqWindows' = n
    /\ calls' = calls + 1
    /\ win' = 0
    /\ mpc' = "lambda"
    /\ IF inserter_ = "null"
       THEN inserter_' = "live" /\ FreshExecutor
       ELSE UNCHANGED <<inserter_, execVars>>
    /\ signal' = "none"
    /\ UNCHANGED <<features_, lastResult, histVars, accepted, candVars,
                   sideVars>>

\* the lambda given to for_each_sketch: inserter_->valid() holds
SketchValid ==
    /\ mpc = "lambda"
    /\ win < seqWindows
    /\ valid
    /\ mpc' = "next_item"
    /\ UNCHANGED <<dbVars, execVars, curTgt, win, seqWindows, calls,
                   lastResult, histVars, candVars,
                   callVars, sideVars>>

\* (mutant) a slot is requested and filled although the inserter is not
\* valid
SketchSkipEnqueues ==
    /\ mpc = "lambda"
    /\ win < seqWindows
    /\ ~valid
    /\ \E sk \in Sketches :
          LET item == window_sketch(curTgt, win, sk)
          IN  /\ IF Len(batch) >= BatchSize
                 THEN /\ Len(queue) < QueueSize
                      /\ queue' = Append(queue, batch)
                      /\ batch' = <<item>>
                 ELSE /\ batch' = Append(batch, item)
                      /\ queue' = queue
              /\ enqueued' = Append(enqueued, item)
    /\ win' = win + 1
    /\ UNCHANGED <<dbVars, closed, valid, cstate, cbatch, cdone, mpc, curTgt,
                   seqWindows, calls, lastResult, consumed, everFailed,
                   candVars, callVars, sideVars>>

\* the lambda given to for_each_sketch: the inserter is not valid, only ++win
SketchSkip ==
    /\ mpc = "lambda"
    /\ win < seqWindows
    /\ ~valid
    /\ win' = win + 1
    /\ UNCHANGED <<dbVars, execVars, mpc, curTgt, seqWindows, calls,
                   lastResult, histVars, candVars,
                   callVars, sideVars>>

\* next_item(): a full current batch is pushed to the queue first (the
\* producer blocks while the queue is full); the slot is filled; ++win
SketchNextItem ==
    /\ mpc = "next_item"
    /\ \E sk \in Sketches :
          LET item == window_sketch(curTgt, win, sk)
          IN  /\ IF Len(batch) >= BatchSize
                 THEN /\ Len(queue) < QueueSize
                      /\ queue' = Append(queue, batch)
                      /\ batch' = <<item>>
                 ELSE /\ batch' = Append(batch, item)
                      /\ queue' = queue
              /\ enqueued' = Append(enqueued, item)
    /\ win' = win + 1
    /\ mpc' = "lambda"
    /\ UNCHANGED <<dbVars, closed, valid, cstate, cbatch, cdone, curTgt,
                   seqWindows, calls, lastResult, consumed, everFailed,
                   candVars,
                   callVars, sideVars>>

\* 5./6. all windows seen: record the window count, return true
AddTargetDone ==
    /\ mpc = "lambda"
    /\ win = seqWindows
    /\ targets_' = [targets_ EXCEPT ![curTgt + 1].windows = win]
    /\ lastResult' = "true"
    /\ accepted' = Append(accepted, [name |-> callName, id |-> curTgt])
    /\ mpc' = "idle"
    /\ UNCHANGED <<features_, name2tax_, inserter_, execVars, curTgt, win,
                   seqWindows, calls, histVars, callName, signal, candVars,
                   sideVars>>

(***************************************************************************)
(* database::wait_until_add_target_complete: inserter_ = nullptr runs the  *)
(* executor's destructor (flush, close, join, rethrow).                    *)
(***************************************************************************)
\* (mutant) the pointer is dropped without running the destructor
WaitBeginRelease ==
    /\ mpc = "idle"
    /\ inserter_ = "live"
    /\ inserter_' = "null"
    /\ lastResult' = "waited"
    /\ UNCHANGED <<features_, targets_, name2tax_, execVars, mpc, curTgt, win,
                   seqWindows, calls, histVars, candVars,
                   callVars, sideVars>>

\* there is no inserter: nothing to do
WaitNoInserter ==
    /\ mpc = "idle"
    /\ inserter_ = "null"
    /\ lastResult' = "waited"
    /\ UNCHANGED <<dbVars, execVars, mpc, curTgt, win, seqWindows, calls,
                   histVars, candVars,
                   callVars, sideVars>>

\* the destructor of the executor starts
WaitBegin ==
    /\ mpc = "idle"
    /\ inserter_ = "live"
    /\ mpc' = "flush"
    /\ UNCHANGED <<dbVars, execVars, curTgt, win, seqWindows, calls,
                   lastResult, histVars, candVars,
                   callVars, sideVars>>

\* destructor: flush the current batch (blocking while the queue is full)
\* and close the queue
WaitFlush ==
    /\ mpc = "flush"
    /\ IF batch # <<>>
       THEN /\ Len(queue) < QueueSize
            /\ queue' = Append(queue, batch)
            /\ batch' = <<>>
       ELSE UNCHANGED <<queue, batch>>
    /\ closed' = TRUE
    /\ mpc' = "join"
    /\ UNCHANGED <<dbVars, valid, cstate, cbatch, cdone, curTgt, win,
                   seqWindows, calls, lastResult, histVars, candVars,
                   callVars, sideVars>>

\* (mutant) the destructor joins the consumers and drops a stored error
WaitJoinNoRethrow ==
    /\ mpc = "join"
    /\ \A c \in Consumers : cstate[c] \in {"finished", "dead"}
    /\ inserter_' = "null"
    /\ lastResult' = "waited"
    /\ mpc' = "idle"
    /\ UNCHANGED <<features_, targets_, name2tax_, execVars, curTgt, win,
                   seqWindows, calls, histVars, candVars, callVars, sideVars>>

\* destructor: join the consumers, then propagate a stored error
WaitJoin ==
    /\ mpc = "join"
    /\ \A c \in Consumers : cstate[c] \in {"finished", "dead"}
    /\ inserter_' = "null"
    /\ lastResult' = IF valid THEN "waited" ELSE "insertion_error"
    /\ mpc' = "idle"
    /\ UNCHANGED <<features_, targets_, name2tax_, execVars, curTgt, win,
                   seqWindows, calls, histVars, candVars,
                   callVars, sideVars>>

(***************************************************************************)
(* The consumer thread of the executor; its callback is add_sketch_batch.  *)
(***************************************************************************)
\* pop the oldest batch of the queue
ConsumerTake(c) ==
    /\ cstate[c] = "idle"
    /\ queue # <<>>
    /\ cbatch' = [cbatch EXCEPT ![c] = Head(queue)]
    /\ cdone' = [cdone EXCEPT ![c] = 0]
    /\ queue' = Tail(queue)
    /\ cstate' = [cstate EXCEPT ![c] = "processing"]
    /\ UNCHANGED <<dbVars, batch, closed, valid, mainVars, histVars, candVars,
                   callVars, sideVars>>

\* add_sketch_batch: insert the features of the next window sketch
ConsumerInsert(c) ==
    /\ cstate[c] = "processing"
    /\ LET ws == BatchItem(cbatch[c], cdone[c])
       IN  /\ features_' = InsertSketch(features_, ws, 1)
           /\ consumed' = Append(consumed, ws)
    /\ cdone' = [cdone EXCEPT ![c] = @ + 1]
    /\ cstate' = [cstate EXCEPT ![c] =
                     IF cdone[c] + 1 = Len(cbatch[c]) THEN "idle"
                     ELSE "processing"]
    /\ UNCHANGED <<targets_, name2tax_, inserter_, batch, queue, closed, valid,
                   cbatch, mainVars, enqueued, everFailed, candVars,
                   callVars, sideVars>>

\* the callback throws (an insert fails): the error is stored, the executor
\* becomes invalid and the consumer thread ends
ConsumerFail(c) ==
    /\ cstate[c] = "processing"
    /\ valid' = FALSE
    /\ everFailed' = TRUE
    /\ cstate' = [cstate EXCEPT ![c] = "dead"]
    /\ UNCHANGED <<dbVars, batch, queue, closed, cbatch, cdone, mainVars,
                   enqueued, consumed, candVars,
                   callVars, sideVars>>

\* the queue is closed and empty: the consumer thread ends
ConsumerFinish(c) ==
    /\ cstate[c] = "idle"
    /\ queue = <<>>
    /\ closed
    /\ cstate' = [cstate EXCEPT ![c] = "finished"]
    /\ UNCHANGED <<dbVars, batch, queue, closed, valid, cbatch, cdone,
                   mainVars, histVars, candVars,
                   callVars, sideVars>>

ConsumerStep == \E c \in Consumers :
    \/ ConsumerTake(c)
    \/ ConsumerInsert(c)
    \/ ConsumerFail(c)
    \/ ConsumerFinish(c)

(***************************************************************************)
(* database::matches_sorter and database::accumulate_matches.              *)
(***************************************************************************)
\* number of calls made on one accumulator
MaxAccOps == 3
\* largest window id stored in the queried database
MaxAccWin == 1

\* the locations stored in the queried database (targets 0 and 1)
AccLocations == [tgt : 0..1, win : 0..MaxAccWin]

\* the buckets of a built database: strictly increasing, at most
\* maxLocsPerFeature_ locations
SortedBuckets ==
    UNION { { b \in [1..n -> AccLocations] :
                \A i \in 1..(n - 1) : LocLess(b[i], b[i + 1]) } :
            n \in 0..MaxLocsPerFeature }

\* the sketches of a query window: features of the database, and feature 0
\* that the database does not hold
QuerySketches == Sketches \cup { <<0, 2>>, <<2>> }

\* (mutant) an offset is appended for every feature of the query
AccumulateFeatureAlways(res, f) ==
    LET l == IF f \in DOMAIN features_
             THEN res.locs \o features_[f] ELSE res.locs
    IN  [locs |-> l, offsets |-> Append(res.offsets, Len(l))]

\* the body of the loop over a sketch's features in accumulate_matches;
\* res is [locs, offsets]
AccumulateFeature(res, f) ==
    IF f \in DOMAIN features_ /\ Len(features_[f]) > 0
    THEN LET l == res.locs \o features_[f]
         IN  [locs |-> l, offsets |-> Append(res.offsets, Len(l))]
    ELSE res

RECURSIVE AccumulateSketch(_, _, _)
AccumulateSketch(res, sk, i) ==
    IF i > Len(sk) THEN res
    ELSE AccumulateSketch(AccumulateFeature(res, sk[i]), sk, i + 1)

\* std::merge of two ranges under operator< of location: on equivalent
\* elements the one of the first range goes first
RECURSIVE merge(_, _)
merge(a, b) ==
    IF a = <<>> THEN b
    ELSE IF b = <<>> THEN a
    ELSE IF LocLess(Head(b), Head(a))
         THEN <<Head(b)>> \o merge(a, Tail(b))
         ELSE <<Head(a)>> \o merge(Tail(a), b)

\* std::vector::resize(n): truncate, or pad with value-initialized locations
resize(v, n) ==
    IF Len(v) >= n THEN SubSeq(v, 1, n)
    ELSE v \o [k \in 1..(n - Len(v)) |-> Loc(0, 0)]

\* the output range of std::merge: s written to v from position begin on
\* (positions counted from 0)
WriteAt(v, begin, s) ==
    [k \in 1..Len(v) |->
        IF k > begin /\ k <= begin + Len(s) THEN s[k - begin] ELSE v[k]]

\* the inner loop of merge_sort: for (i; i < numChunks; i += 2*s)
RECURSIVE MergePass(_, _, _, _, _)
MergePass(inout, offsets, temp, s, i) ==
    LET numChunks == Len(offsets) - 1
        begin == offsets[i + 1]
        mid == IF i + s <= numChunks THEN offsets[i + s + 1]
               ELSE offsets[numChunks + 1]
        end == IF i + 2 * s <= numChunks THEN offsets[i + 2 * s + 1]
               ELSE offsets[numChunks + 1]
    IN  IF i >= numChunks THEN temp
        ELSE MergePass(inout, offsets,
                       WriteAt(temp, begin,
                               merge(SubSeq(inout, begin + 1, mid),
                                     SubSeq(inout, mid + 1, end))),
                       s, i + 2 * s)

\* the outer loop of merge_sort: for (s; s < numChunks; s *= 2), with the
\* std::swap(inout, temp) that ends each pass
RECURSIVE MergeLoop(_, _, _, _)
MergeLoop(inout, offsets, temp, s) ==
    IF s >= Len(offsets) - 1 THEN [inout |-> inout, temp |-> temp]
    ELSE MergeLoop(MergePass(inout, offsets, temp, s, 0), offsets, inout,
                   2 * s)

merge_sort(inout, offsets, temp) ==
    IF Len(offsets) < 3 THEN [inout |-> inout, temp |-> temp]
    ELSE MergeLoop(inout, offsets, resize(temp, Len(inout)), 1)

\* matches_sorter has no constructor: all three vectors start empty
AccInit ==
    /\ locs_ = <<>>
    /\ offsets_ = <<>>
    /\ temp_ = <<>>
    /\ accOps = 0
    /\ accLast = "none"
    /\ preSort = <<>>
    /\ accSketch = <<>>

\* matches_sorter::clear
AccClear ==
    /\ accOps < MaxAccOps
    /\ locs_' = <<>>
    /\ offsets_' = <<0>>
    /\ accOps' = accOps + 1
    /\ accLast' = "clear"
    /\ accSketch' = <<>>
    /\ UNCHANGED <<temp_, preSort, ingestVars, candVars, mapVars, ioVars,
                   winVars, optVars>>

\* database::accumulate_matches for a query of one window
AccumulateMatches ==
    /\ accOps < MaxAccOps
    /\ \E sk \in QuerySketches :
          LET res == AccumulateSketch([locs |-> locs_, offsets |-> offsets_],
                                      sk, 1)
          IN  /\ locs_' = res.locs
              /\ offsets_' = res.offsets
              /\ accSketch' = sk
    /\ accOps' = accOps + 1
    /\ accLast' = "accumulate"
    /\ UNCHANGED <<temp_, preSort, ingestVars, candVars, mapVars, ioVars,
                   winVars, optVars>>

\* matches_sorter::sort
AccSort ==
    /\ accOps < MaxAccOps
    /\ LET r == merge_sort(locs_, offsets_, temp_)
       IN  /\ locs_' = r.inout
           /\ temp_' = r.temp
    /\ preSort' = locs_
    /\ accOps' = accOps + 1
    /\ accLast' = "sort"
    /\ accSketch' = <<>>
    /\ UNCHANGED <<offsets_, ingestVars, candVars, mapVars, ioVars,
                   winVars, optVars>>

AccNext ==
    \/ AccClear
    \/ AccumulateMatches
    \/ AccSort

(***************************************************************************)
(* hash_multimap in detail: the counters of the table next to its buckets, *)
(* and the insert of add_sketch_batch on it.                               *)
(***************************************************************************)
\* number of ingestion inserts
MaxInserts == 6
\* bucket_count of an empty table
InitialBuckets == 2

\* the features inserted
MapFeatures == Features \cup {3}

\* number of consecutive inserts that carry windows of one target
MapWindowsPerTarget == 2

\* feature_store::max_bucket_size(): the largest bucket the table supports;
\* the width of bucket_size_type scaled to the cap of the modelled database
max_bucket_size == MaxLocsPerFeature + 1

\* max_supported_locations_per_feature(): the constructor's value of
\* maxLocsPerFeature_
max_supported_locations_per_feature == max_bucket_size - 1

\* (mutant) a maximum load factor of 2
default_max_load_factor_two == [num |-> 2, den |-> 1]

\* default_max_load_factor(): 0.8, as a fraction
default_max_load_factor == [num |-> 4, den |-> 5]

IsPrime(n) == n > 1 /\ \A d \in 2..(n - 1) : n % d # 0

\* the next prime >= n
NextPrime(n) ==
    CHOOSE p \in n..(2 * n + 2) :
        IsPrime(p) /\ \A q \in n..(p - 1) : ~IsPrime(q)

\* the table of a constructed database: the constructor sets its maximum
\* load factor
EmptyTable ==
    [bucket_count |-> InitialBuckets,
     key_count |-> 0,
     value_count |-> 0,
     max_load_factor |-> default_max_load_factor,
     keys |-> {},
     locs |-> [f \in MapFeatures |-> <<>>],
     capacity |-> [f \in MapFeatures |-> 0]]

\* load >= maxLoadFactor: rehash to the next prime >= 2 N
HmRehashIfLoaded(t) ==
    IF t.key_count * t.max_load_factor.den
          >= t.bucket_count * t.max_load_factor.num
    THEN [t EXCEPT !.bucket_count = NextPrime(2 * @)]
    ELSE t

\* the capacity of a bucket of capacity c that overflows: doubled, up to the
\* largest supported bucket
GrowCapacity(c) ==
    IF 2 * c > max_bucket_size THEN max_bucket_size ELSE 2 * c

\* insert(feature, location): rehash first if loaded; append to the bucket
\* of a key that is found (growing a bucket that is full), else place the
\* key with a bucket of one location and capacity 1
HmInsert(t, f, loc) ==
    LET r == HmRehashIfLoaded(t)
    IN  IF f \in r.keys
        THEN [r EXCEPT !.locs[f] = Append(@, loc),
                       !.capacity[f] =
                           IF Len(r.locs[f]) = @ THEN GrowCapacity(@) ELSE @,
                       !.value_count = @ + 1]
        ELSE [r EXCEPT !.keys = @ \cup {f},
                       !.key_count = @ + 1,
                       !.locs[f] = <<loc>>,
                       !.capacity[f] = 1,
                       !.value_count = @ + 1]

\* erase(iter): the key becomes a tombstone (bucket_count stays), its
\* bucket is released
HmErase(t, f) ==
    [t EXCEPT !.keys = @ \ {f},
              !.key_count = @ - 1,
              !.value_count = @ - Len(t.locs[f]),
              !.locs[f] = <<>>,
              !.capacity[f] = 0]

\* shrink(iter, cap): truncate the bucket to cap entries
HmShrink(t, f, cap) ==
    IF Len(t.locs[f]) > cap
    THEN [t EXCEPT !.locs[f] = SubSeq(@, 1, cap),
                   !.value_count = @ - (Len(t.locs[f]) - cap)]
    ELSE t

\* (mutant) the bucket is not shrunk after the insert
AddFeatureNoShrink(t, f, loc) == HmInsert(t, f, loc)

\* add_sketch_batch, the body of the loop over the features: insert, then
\* shrink if the bucket holds more than maxLocsPerFeature_ locations
AddFeature(t, f, loc) ==
    LET r == HmInsert(t, f, loc)
    IN  IF Len(r.locs[f]) > MaxLocsPerFeature
        THEN HmShrink(r, f, MaxLocsPerFeature)
        ELSE r

\* the number of different targets among the locations of a bucket
DistinctTargets(bucket) ==
    Cardinality({ bucket[k].tgt : k \in 1..Len(bucket) })

\* (mutant) buckets of maxambig targets count as ambiguous too
AmbiguousAtLeast(t, maxambig) ==
    { f \in t.keys : DistinctTargets(t.locs[f]) >= maxambig }

\* the keys whose buckets hold locations of more than maxambig targets
Ambiguous(t, maxambig) ==
    { f \in t.keys : DistinctTargets(t.locs[f]) > maxambig }

RECURSIVE EraseAll(_, _)
\* erase every key of the set S
EraseAll(t, S) ==
    IF S = {} THEN t
    ELSE LET f == CHOOSE x \in S : \A y \in S : x <= y
         IN  EraseAll(HmErase(t, f), S \ {f})

\* remove_ambiguous_features(maxambig): one pass over the buckets, erasing
\* those with locations of more than maxambig different targets
remove_ambiguous_features(t, maxambig) ==
    EraseAll(t, Ambiguous(t, maxambig))

\* the location of the n-th ingestion insert: window n, of target
\* n / MapWindowsPerTarget, so locations arrive in increasing (tgt, win) order
NthLocation(n) == Loc(n, n \div MapWindowsPerTarget)

MapInit ==
    /\ table = EmptyTable
    /\ numInserts = 0
    /\ lastKey = 0
    /\ maxambigArg = -1
    /\ removed = -1

\* one ingestion insert
MapAddFeature ==
    /\ numInserts < MaxInserts
    /\ \E f \in MapFeatures :
          /\ table' = AddFeature(table, f, NthLocation(numInserts))
          /\ lastKey' = f
    /\ numInserts' = numInserts + 1
    /\ maxambigArg' = -1
    /\ removed' = -1
    /\ UNCHANGED <<ingestVars, candVars, accVars, ioVars, winVars, optVars>>

\* one call of remove_ambiguous_features
MapRemoveAmbiguous ==
    /\ \E maxambig \in 0..MaxLocsPerFeature :
          /\ table' = remove_ambiguous_features(table, maxambig)
          /\ maxambigArg' = maxambig
    /\ removed' = table.key_count - table'.key_count
    /\ lastKey' = 0
    /\ UNCHANGED <<numInserts, ingestVars, candVars, accVars, ioVars,
                   winVars, optVars>>

MapNext ==
    \/ MapAddFeature
    \/ MapRemoveAmbiguous

(***************************************************************************)
(* Binary I/O: database::write and database::read over write_binary and    *)
(* read_binary of target and target_store.  The file is a sequence of      *)
(* fixed-width words; a string is its length followed by its bytes.        *)
(***************************************************************************)
RMA_DB_VERSION == 20241004

\* the names and file names that occur, and their bytes
Strings == {"", "a", "b", "f"}

StrBytes(str) ==
    CASE str = "" -> <<>>
      [] str = "a" -> <<97>>
      [] str = "b" -> <<98>>
      [] str = "f" -> <<102>>

BytesStr(bytes) == CHOOSE str \in Strings : StrBytes(str) = bytes

\* write_binary(os, std::string)
write_string(str) == <<Len(StrBytes(str))>> \o StrBytes(str)

\* write_binary(os, const target&)
write_target(t) ==
    write_string(t.name) \o write_string(t.filename)
        \o <<t.index>> \o <<t.windows>>

RECURSIVE write_targets(_, _)
write_targets(ts, i) ==
    IF i > Len(ts) THEN <<>>
    ELSE write_target(ts[i]) \o write_targets(ts, i + 1)

\* write_binary(os, const target_store&)
write_target_store(ts) == <<Len(ts)>> \o write_targets(ts, 1)

RECURSIVE write_locations(_, _)
write_locations(b, i) ==
    IF i > Len(b) THEN <<>>
    ELSE <<b[i].win, b[i].tgt>> \o write_locations(b, i + 1)

\* one bucket: feature, size, locations[size]
write_bucket(f, b) == <<f, Len(b)>> \o write_locations(b, 1)

\* the non-empty buckets of the features from f on
RECURSIVE write_buckets(_, _)
write_buckets(map, f) ==
    IF f \notin DOMAIN map THEN <<>>
    ELSE (IF Len(map[f]) > 0 THEN write_bucket(f, map[f]) ELSE <<>>)
             \o write_buckets(map, f + 1)

\* the multimap: bucket_count, then the non-empty buckets
write_features(map) == <<table.bucket_count>> \o write_buckets(map, 1)

\* database::write: version, maxLocationsPerFeature, targets, multimap
write(ts, map) ==
    <<RMA_DB_VERSION, MaxLocsPerFeature>>
        \o write_target_store(ts) \o write_features(map)

\* read_binary(is, std::string&): [val, pos]
read_string(f, pos) ==
    [val |-> BytesStr(SubSeq(f, pos + 1, pos + f[pos])),
     pos |-> pos + 1 + f[pos]]

\* (mutant) windows is read before index
read_target_windows_first(f, pos) ==
    LET name == read_string(f, pos)
        filename == read_string(f, name.pos)
    IN  [val |-> [name |-> name.val, filename |-> filename.val,
                  index |-> f[filename.pos + 1],
                  windows |-> f[filename.pos]],
         pos |-> filename.pos + 2]

\* read_binary(is, target&): name_, source_.filename, source_.index,
\* source_.windows
read_target(f, pos) ==
    LET name == read_string(f, pos)
        filename == read_string(f, name.pos)
    IN  [val |-> [name |-> name.val, filename |-> filename.val,
                  index |-> f[filename.pos],
                  windows |-> f[filename.pos + 1]],
         pos |-> filename.pos + 2]

\* the loop of read_binary(is, target_store&) over the n resized targets
RECURSIVE read_targets(_, _, _, _)
read_targets(f, pos, n, ts) ==
    IF n = 0 THEN [val |-> ts, pos |-> pos]
    ELSE LET t == read_target(f, pos)
         IN  read_targets(f, t.pos, n - 1, Append(ts, t.val))

\* read_binary(is, target_store&)
read_target_store(f, pos) == read_targets(f, pos + 1, f[pos], <<>>)

RECURSIVE read_locations(_, _, _, _)
read_locations(f, pos, n, b) ==
    IF n = 0 THEN b
    ELSE read_locations(f, pos + 2, n - 1, Append(b, Loc(f[pos], f[pos + 1])))

\* the buckets up to the end of the file, each inserted whole under its key
RECURSIVE read_buckets(_, _, _)
read_buckets(f, pos, map) ==
    IF pos > Len(f) THEN map
    ELSE read_buckets(f, pos + 2 + 2 * f[pos + 1],
                      [map EXCEPT ![f[pos]] =
                          read_locations(f, pos + 2, f[pos + 1], <<>>)])

\* the multimap: bucket_count, then the buckets
read_features(f, pos, map) == read_buckets(f, pos + 1, map)

\* database::read on a constructed database: the targets, and with scope
\* everything the multimap
read(f, scope, db) ==
    LET ts == read_target_store(f, 3)
    IN  [targets |-> ts.val,
         features |-> IF scope = "everything"
                      THEN read_features(f, ts.pos, db.features)
                      ELSE db.features]

\* the reading database after construction
IoInit ==
    /\ file = <<>>
    /\ db2 = [targets |-> <<>>, features |-> [f \in Features |-> <<>>]]
    /\ what = "none"
    /\ ioPc = "built"

\* database::write
IoWrite ==
    /\ ioPc = "built"
    /\ file' = write(targets_, features_)
    /\ ioPc' = "written"
    /\ UNCHANGED <<db2, what, ingestVars, candVars, accVars, mapVars,
                   winVars, optVars>>

\* database::read
IoRead ==
    /\ ioPc = "written"
    /\ \E scope \in {"everything", "metadata_only"} :
          /\ db2' = read(file, scope, db2)
          /\ what' = scope
    /\ ioPc' = "read"
    /\ UNCHANGED <<file, ingestVars, candVars, accVars, mapVars, winVars,
                   optVars>>

IoNext ==
    \/ IoWrite
    \/ IoRead

(***************************************************************************)
(* The windows of one sequence: sketcher::for_each_sketch as driven by     *)
(* database::add_all_window_sketches, which counts them.                   *)
(***************************************************************************)
\* longest sequence
MaxSeqLen == 6
\* largest window length
MaxWinLen == 3
\* largest window stride
MaxStride == 2

\* (mutant) the lambda counts a window only when it hands it to the
\* inserter
LambdaWinOnlyValid(w, isValid) == IF isValid THEN w + 1 ELSE w

\* the lambda given to for_each_sketch: ++win, whether or not the sketch
\* went to the inserter
LambdaWin(w, isValid) == w + 1

WinOff ==
    /\ seqLen = 0
    /\ winlen = 1
    /\ winstride = 1
    /\ wbeg = 0
    /\ wcnt = 0
    /\ wpc = "off"

\* add_all_window_sketches is entered: window_id win = 0
WinInit ==
    /\ seqLen \in 0..MaxSeqLen
    /\ winlen \in 1..MaxWinLen
    /\ winstride \in 1..MaxStride
    /\ wbeg = 0
    /\ wcnt = 0
    /\ wpc = "sketching"

\* for_each_sketch: the window [wbeg, wbeg + w) lies within the sequence;
\* its sketch is consumed
WinSketch ==
    /\ wpc = "sketching"
    /\ wbeg + winlen <= seqLen
    /\ \E isValid \in BOOLEAN : wcnt' = LambdaWin(wcnt, isValid)
    /\ wbeg' = wbeg + winstride
    /\ UNCHANGED <<seqLen, winlen, winstride, wpc, ingestVars, candVars,
                   accVars, mapVars, ioVars, optVars>>

\* for_each_sketch is done: return win
WinReturn ==
    /\ wpc = "sketching"
    /\ wbeg + winlen > seqLen
    /\ wpc' = "returned"
    /\ UNCHANGED <<seqLen, winlen, winstride, wbeg, wcnt, ingestVars,
                   candVars, accVars, mapVars, ioVars, optVars>>

WinNext ==
    \/ WinSketch
    \/ WinReturn

(***************************************************************************)
(* get_query_options: covMin and hitsCutoff above 1 are percentages.       *)
(* Values are exact fractions in units of 1/Unit.                          *)
(***************************************************************************)
\* the factor 0.01 is 1/PercentDen
PercentDen == 100
\* largest threshold given as a small number
MaxThreshold == 3

Unit == PercentDen * PercentDen

\* thresholds given on the command line: -1/2, 0, 1/2, 1, 3/2, ..., and the
\* percentages 50 and 100
ThresholdValues ==
    { (Unit \div 2) * h : h \in (-1)..(2 * MaxThreshold) }
        \cup { Unit * 50, Unit * 100 }

\* (mutant) a value of 1 is taken as one percent
interpret_percentage_from_one(v) ==
    IF v >= Unit THEN v \div PercentDen ELSE v

\* if (x > 1) x *= 0.01
interpret_percentage(v) == IF v > Unit THEN v \div PercentDen ELSE v

OptOff ==
    /\ covMin = 0
    /\ hitsCutoff = 0
    /\ covMinArg = 0
    /\ hitsCutoffArg = 0
    /\ optPc = "off"

\* the command line is parsed into opt.classify
OptInit ==
    /\ covMinArg \in ThresholdValues
    /\ hitsCutoffArg \in ThresholdValues
    /\ covMin = covMinArg
    /\ hitsCutoff = hitsCutoffArg
    /\ optPc = "parsed"

\* get_query_options: "interprets numbers > 1 as percentage"
OptInterpret ==
    /\ optPc = "parsed"
    /\ covMin' = interpret_percentage(covMin)
    /\ hitsCutoff' = interpret_percentage(hitsCutoff)
    /\ optPc' = "done"
    /\ UNCHANGED <<covMinArg, hitsCutoffArg, ingestVars, candVars, accVars,
                   mapVars, ioVars, winVars>>

OptNext == OptInterpret

\* the variables of the pure functions while another part runs
PureOff == WinOff /\ OptOff

(***************************************************************************)
(* The ingestion specification.                                            *)
(***************************************************************************)
\* the candidate generation variables while the database is built
CandOff ==
    /\ matches = <<>>
    /\ numWindows = 1
    /\ maxCandidates = 1
    /\ cpc = "off"
    /\ fst = 1
    /\ lst = 1
    /\ hits = 0
    /\ curBest = match_candidate
    /\ top_ = <<>>
    /\ emitted = <<>>
    /\ refuseAt = 0

\* the executor, the calling thread and the history while nothing is
\* being added to the database
IngestIdle ==
    /\ inserter_ = "null"
    /\ batch = <<>>
    /\ queue = <<>>
    /\ closed = FALSE
    /\ valid = TRUE
    /\ cstate = [c \in Consumers |-> "idle"]
    /\ cbatch = [c \in Consumers |-> <<>>]
    /\ cdone = [c \in Consumers |-> 0]
    /\ mpc = "idle"
    /\ curTgt = 0
    /\ win = 0
    /\ seqWindows = 0
    /\ calls = 0
    /\ lastResult = "none"
    /\ callName = "none"
    /\ signal = "none"
    /\ accepted = <<>>
    /\ enqueued = <<>>
    /\ consumed = <<>>
    /\ everFailed = FALSE

\* the state of a database after construction
IngestInit ==
    /\ features_ = [f \in Features |-> <<>>]
    /\ targets_ = <<>>
    /\ name2tax_ = <<>>
    /\ IngestIdle

Init == IngestInit /\ CandOff /\ AccInit /\ MapInit /\ IoInit /\ PureOff

Next ==
    \/ AddTargetLimit
    \/ AddTargetDuplicate
    \/ AddTargetStart
    \/ SketchValid
    \/ SketchSkip
    \/ SketchNextItem
    \/ AddTargetDone
    \/ WaitNoInserter
    \/ WaitBegin
    \/ WaitFlush
    \/ WaitJoin
    \/ ConsumerStep

Spec == Init /\ [][Next]_vars

\* the steps of the calling thread inside add_target and inside
\* wait_until_add_target_complete: a thread that can run does run
MainStep ==
    \/ SketchValid
    \/ SketchSkip
    \/ SketchNextItem
    \/ AddTargetDone
    \/ WaitFlush
    \/ WaitJoin

\* the steps of a consumer thread that runs on; whether the callback throws
\* is not for the scheduler to decide
ConsumerProgress == \E c \in Consumers :
    \/ ConsumerTake(c)
    \/ ConsumerInsert(c)
    \/ ConsumerFinish(c)

\* ingestion under fair scheduling of both threads
SpecFair ==
    /\ Init
    /\ [][Next]_vars
    /\ WF_vars(MainStep)
    /\ WF_vars(ConsumerProgress)

\* a candidate list is built from the matches of a query against a database
InitCand == CandInit /\ IngestInit /\ AccInit /\ MapInit /\ IoInit /\ PureOff

SpecCand == InitCand /\ [][CandNext]_vars

\* the same scan with a consumer that may return false
InitConsume ==
    ConsumeInit /\ IngestInit /\ AccInit /\ MapInit /\ IoInit /\ PureOff

SpecConsume == InitConsume /\ [][ConsumeNext]_vars

\* a database built from the targets "a" and "b", as a query finds it
BuiltDatabase ==
    /\ features_ \in [Features -> SortedBuckets]
    /\ targets_ = << [name |-> "a", windows |-> MaxAccWin + 1],
                     [name |-> "b", windows |-> MaxAccWin + 1] >>
    /\ name2tax_ = [x \in {"a", "b"} |-> IF x = "a" THEN 0 ELSE 1]
    /\ IngestIdle

\* a freshly constructed accumulator and the database it is filled from
InitAcc == BuiltDatabase /\ CandOff /\ AccInit /\ MapInit /\ IoInit /\ PureOff

SpecAcc == InitAcc /\ [][AccNext]_vars

\* the table of a constructed database, filled by ingestion inserts
InitMap == IngestInit /\ CandOff /\ AccInit /\ MapInit /\ IoInit /\ PureOff

SpecMap == InitMap /\ [][MapNext]_vars

\* the targets of a built database with their file sources: distinct names,
\* window counts as recorded by add_target
StoredTargets ==
    LET T == [name : {"a", "b"}, filename : {"", "f"}, index : 0..1,
              windows : {0, MaxAccWin + 1}]
    IN  { ts \in UNION { [1..n -> T] : n \in 0..2 } :
            \A i, j \in 1..Len(ts) : i # j => ts[i].name # ts[j].name }

\* a built database that is written to a file
WrittenDatabase ==
    /\ features_ \in [Features -> SortedBuckets]
    /\ targets_ \in StoredTargets
    /\ name2tax_ = [x \in { targets_[i].name : i \in 1..Len(targets_) } |->
                      CHOOSE i \in 0..(Len(targets_) - 1) :
                          targets_[i + 1].name = x]
    /\ IngestIdle

InitIO == WrittenDatabase /\ CandOff /\ AccInit /\ MapInit /\ IoInit /\ PureOff

SpecIO == InitIO /\ [][IoNext]_vars

\* a sequence is given to add_all_window_sketches
InitWin == IngestInit /\ CandOff /\ AccInit /\ MapInit /\ IoInit /\ OptOff
              /\ WinInit

SpecWin == InitWin /\ [][WinNext]_vars

\* a command line is given to get_query_options
InitOpt == IngestInit /\ CandOff /\ AccInit /\ MapInit /\ IoInit /\ WinOff
              /\ OptInit

SpecOpt == InitOpt /\ [][OptNext]_vars

(***************************************************************************)
(* Properties of candidate generation (checked under SpecCand).            *)
(***************************************************************************)
\* the pairs i <= j of matches of target t that lie less than numWindows apart
RangePairs(t) ==
    { p \in (1..Len(matches)) \X (1..Len(matches)) :
        /\ p[1] <= p[2]
        /\ matches[p[1]].tgt = t
        /\ matches[p[2]].tgt = t
        /\ matches[p[2]].win - matches[p[1]].win < numWindows }

\* the largest number of matches from i to j over the pairs of target t
MaxRangeHits(t) ==
    LET P == RangePairs(t)
    IN  IF P = {} THEN 0
        ELSE LET best == CHOOSE p \in P :
                            \A q \in P : q[2] - q[1] <= p[2] - p[1]
             IN  best[2] - best[1] + 1

MatchesOfTarget(t) == { i \in 1..Len(matches) : matches[i].tgt = t }

\* C5: the candidate emitted for a target has hits equal to the maximum of
\* j - i + 1 over the pairs i <= j of the target's matches with
\* win[j] - win[i] < numWindows, and its range is [win[i], win[j]] of a pair
\* that reaches this maximum.
C5_BestRangeIsMaximal ==
    \A k \in 1..Len(emitted) :
        LET c == emitted[k]
        IN  /\ c.hits = MaxRangeHits(c.tgt)
            /\ \E p \in RangePairs(c.tgt) :
                  /\ p[2] - p[1] + 1 = c.hits
                  /\ matches[p[1]].win = c.beg
                  /\ matches[p[2]].win = c.end

\* a finished scan in which some target's best range has several hits and
\* leaves out other matches of the target (the left side had to move)
C5_Witness ==
    /\ cpc = "done"
    /\ \E k \in 1..Len(emitted) :
          /\ emitted[k].hits >= 2
          /\ Cardinality(MatchesOfTarget(emitted[k].tgt)) > emitted[k].hits
          /\ emitted[k].beg > matches[
                CHOOSE i \in MatchesOfTarget(emitted[k].tgt) :
                    \A j \in MatchesOfTarget(emitted[k].tgt) : i <= j].win

\* the distinct targets of the match list
MatchTargets == { matches[i].tgt : i \in 1..Len(matches) }

\* C6: the consumer is called exactly once per distinct target of the list,
\* in ascending target order; the calls made so far are for the targets that
\* precede the current one, and at the end every target has had its call
\* (none for an empty list).
C6_OncePerTargetAscending ==
    /\ \A k \in 1..(Len(emitted) - 1) : emitted[k].tgt < emitted[k + 1].tgt
    /\ { emitted[k].tgt : k \in 1..Len(emitted) } \subseteq MatchTargets
    /\ cpc = "loop" =>
          { emitted[k].tgt : k \in 1..Len(emitted) }
              = { t \in MatchTargets : t < curBest.tgt }
    /\ cpc = "done" =>
          /\ { emitted[k].tgt : k \in 1..Len(emitted) } = MatchTargets
          /\ Len(emitted) = Cardinality(MatchTargets)

\* a finished scan over a list with several targets, the last of them with
\* several matches
C6_Witness ==
    /\ cpc = "done"
    /\ Cardinality(MatchTargets) >= 2
    /\ Len(emitted) = Cardinality(MatchTargets)
    /\ Len(matches) >= 2
    /\ matches[Len(matches)].tgt = matches[Len(matches) - 1].tgt

\* C7: every emitted candidate has beg <= end and spans at most numWindows
\* windows.
C7_RangeWithinLimit ==
    \A k \in 1..Len(emitted) :
        /\ emitted[k].beg <= emitted[k].end
        /\ emitted[k].end - emitted[k].beg + 1 <= numWindows

\* an emitted candidate whose range is exactly numWindows > 1 windows long,
\* in a target that has matches further apart than that
C7_Witness ==
    \E k \in 1..Len(emitted) :
        /\ numWindows > 1
        /\ emitted[k].end - emitted[k].beg + 1 = numWindows
        /\ \E i, j \in MatchesOfTarget(emitted[k].tgt) :
              matches[j].win - matches[i].win >= numWindows

\* C8 as stated: every emitted candidate has hits <= end - beg + 1, for every
\* sorted match list, also with several matches in one window of a target.
C8_HitsAtMostRangeSize ==
    \A k \in 1..Len(emitted) :
        emitted[k].hits <= emitted[k].end - emitted[k].beg + 1

\* no two matches of the list are the same (target, window)
DistinctLocations ==
    \A i \in 1..(Len(matches) - 1) : LocLess(matches[i], matches[i + 1])

\* C8 (amended): for a sorted match list in which no two matches share the
\* same (target, window), every emitted candidate has hits <= end - beg + 1.
C8_HitsAtMostRangeSizeDistinct ==
    DistinctLocations => C8_HitsAtMostRangeSize

\* a candidate with several hits emitted for a list of distinct locations
\* after the left side of the range has moved
C8_Witness ==
    /\ DistinctLocations
    /\ \E k \in 1..Len(emitted) :
          /\ emitted[k].hits >= 2
          /\ Cardinality(MatchesOfTarget(emitted[k].tgt)) > emitted[k].hits

\* C9: after every insert and at the end the best list has at most
\* maxCandidates entries, in non-increasing order of hits, and no target
\* appears twice.
C9_BestListInvariant ==
    /\ Len(top_) <= maxCandidates
    /\ \A i \in 1..(Len(top_) - 1) : top_[i].hits >= top_[i + 1].hits
    /\ \A i, j \in 1..Len(top_) : i # j => top_[i].tgt # top_[j].tgt

\* more candidates were emitted than the list may hold, and the list is full
C9_Witness ==
    /\ Len(emitted) > maxCandidates
    /\ Len(top_) = maxCandidates

\* position of the k-th emitted candidate among all emitted candidates when
\* ordered by hits (most first) and, for equal hits, by emission order
EmittedRank(k) ==
    1 + Cardinality({ m \in 1..Len(emitted) :
                        \/ emitted[m].hits > emitted[k].hits
                        \/ emitted[m].hits = emitted[k].hits /\ m < k })

\* C10: the best list holds exactly the maxCandidates emitted candidates with
\* the most hits (all of them when fewer were emitted); among candidates with
\* equal hits the one emitted earlier comes first and is the one kept.
C10_BestListIsTopK ==
    /\ Len(top_) = IF Len(emitted) < maxCandidates
                   THEN Len(emitted) ELSE maxCandidates
    /\ \A k \in 1..Len(emitted) :
          EmittedRank(k) <= maxCandidates
              => /\ EmittedRank(k) <= Len(top_)
                 /\ top_[EmittedRank(k)] = emitted[k]

\* a finished scan in which the later of two candidates with equal hits was
\* dropped because the list was full
C10_Witness ==
    /\ cpc = "done"
    /\ Len(emitted) = 2
    /\ maxCandidates = 1
    /\ emitted[1].hits = emitted[2].hits
    /\ emitted[1].hits >= 2
    /\ top_ = <<emitted[1]>>

\* the pairs of target t that reach the target's maximal hit count
MaxPairs(t) ==
    LET m == MaxRangeHits(t)
    IN  { p \in RangePairs(t) : p[2] - p[1] + 1 = m }

\* C29: within one target, the best range is replaced only by a range with
\* strictly more hits, so the emitted candidate is the first range in scan
\* order (lowest end window) that reaches the target's maximal hit count; a
\* later range with the same hit count never replaces it.
C29_FirstMaximalRangeWins ==
    /\ [](\A k \in 1..Len(emitted) :
              LET c == emitted[k]
                  M == MaxPairs(c.tgt)
                  first == CHOOSE p \in M : \A q \in M : p[2] <= q[2]
              IN  /\ c.beg = matches[first[1]].win
                  /\ c.end = matches[first[2]].win
                  /\ \A q \in M : c.end <= matches[q[2]].win)
    /\ [][(cpc = "loop" /\ curBest'.tgt = curBest.tgt /\ curBest' # curBest)
              => curBest'.hits > curBest.hits]_vars

\* a finished scan: a later range of the target has as many hits as the
\* emitted candidate, which has several
C29_Witness ==
    /\ cpc = "done"
    /\ \E k \in 1..Len(emitted) :
          /\ emitted[k].hits >= 2
          /\ \E q \in MaxPairs(emitted[k].tgt) :
                matches[q[2]].win > emitted[k].end

\* C23: if the consumer returns false for a candidate,
\* for_all_contiguous_window_ranges returns at once: the consumer is not
\* called again, neither for later targets nor for the final target.
C23_FalseEndsTheScan ==
    /\ [](refuseAt > 0 => Len(emitted) <= refuseAt)
    /\ [][(refuseAt > 0 /\ Len(emitted) = refuseAt) =>
              /\ emitted' = emitted
              /\ top_' = top_
              /\ cpc' \in {"aborted", "done"}]_vars

\* the consumer has returned false for the first of several targets, and
\* matches of later targets were left unscanned
C23_Witness ==
    /\ cpc = "aborted"
    /\ Len(emitted) = refuseAt
    /\ lst < Len(matches)
    /\ Cardinality(MatchTargets) > Len(emitted)

(***************************************************************************)
(* Properties of ingestion (checked under Spec).                           *)
(***************************************************************************)
\* wait_until_add_target_complete() has returned and no add_target call has
\* made a new inserter since: there is no executor
NoInserter == mpc = "idle" /\ inserter_ = "null"

StrictlyIncreasing(b) ==
    \A i \in 1..(Len(b) - 1) : LocLess(b[i], b[i + 1])

\* the window sketches of the consumed history that hold feature f
ConsumedWith(f) ==
    { i \in 1..Len(consumed) :
        \E k \in 1..Len(consumed[i].sk) : consumed[i].sk[k] = f }

\* C1: after any sequence of add_target calls followed by
\* wait_until_add_target_complete(), every bucket holds at most
\* maxLocationsPerFeature locations, strictly increasing by (target, window).
C1_BucketsCappedAndSorted ==
    NoInserter =>
        \A f \in Features :
            /\ Len(features_[f]) <= MaxLocsPerFeature
            /\ StrictlyIncreasing(features_[f])

\* after a wait, a full bucket that holds locations of two targets and was
\* offered more locations than it may hold
C1_Witness ==
    /\ NoInserter
    /\ lastResult = "waited"
    /\ \E f \in Features :
          /\ Len(features_[f]) = MaxLocsPerFeature
          /\ features_[f][1].tgt # features_[f][MaxLocsPerFeature].tgt
          /\ Cardinality(ConsumedWith(f)) > MaxLocsPerFeature

\* position of a window sketch in the history of filled slots (0: none)
EnqueuedPos(ws) ==
    IF \E i \in 1..Len(enqueued) : enqueued[i] = ws
    THEN CHOOSE i \in 1..Len(enqueued) : enqueued[i] = ws
    ELSE 0

C3_WaitDeliversAllExactlyOnce ==
    /\ [](NoInserter /\ ~everFailed =>
            /\ consumed = enqueued
            /\ \A i, j \in 1..Len(consumed) :
                  i # j => consumed[i] # consumed[j])
    /\ [][NoInserter /\ NoInserter' =>
            consumed' = consumed /\ features_' = features_]_vars

\* a wait has returned after a last batch that was only partially filled
C3_Witness ==
    /\ NoInserter
    /\ ~everFailed
    /\ lastResult = "waited"
    /\ Len(enqueued) > BatchSize
    /\ Len(enqueued) % BatchSize # 0
    /\ consumed = enqueued

\* the threads that are inside add_sketch_batch, where features_ is used
InAddSketchBatch == { c \in Consumers : cstate[c] = "processing" }

\* C4: during ingestion the multimap is mutated only by the single consumer
\* thread inside add_sketch_batch: at most one thread is inside
\* add_sketch_batch at any time, and every step that changes features_ is a
\* step of that thread, which leaves the state of the thread that calls
\* add_target alone.
C4_OnlyConsumerTouchesMap ==
    /\ [](Cardinality(InAddSketchBatch) <= 1)
    /\ [][features_' # features_ =>
            /\ InAddSketchBatch # {}
            /\ UNCHANGED <<mainVars, targets_, name2tax_, inserter_, batch>>]_vars

\* the consumer is inside add_sketch_batch, the multimap already holds
\* locations, and the thread that calls add_target is inside next_item()
C4_Witness ==
    /\ InAddSketchBatch # {}
    /\ mpc = "next_item"
    /\ \E f \in Features : features_[f] # <<>>

\* the positions in the history of filled slots that hold sketches of
\* target t
EnqueuedOf(t) == { i \in 1..Len(enqueued) : enqueued[i].tgt = t }

\* C26: once the executor is found invalid, add_all_window_sketches
\* requests no further batch slots, so no later sketch of that target is
\* enqueued; it still counts every window, so the window count it returns
\* equals the number of sketches the sketcher produced whether or not they
\* were enqueued.
\* (A sketch is enqueued for window win only if every earlier window of the
\* target was enqueued, that is, if no window was skipped before.)
C26_InvalidSkipsButCounts ==
    /\ [][(mpc = "lambda" /\ ~valid /\ win' # win) =>
              /\ win' = win + 1
              /\ enqueued' = enqueued
              /\ batch' = batch
              /\ queue' = queue]_vars
    /\ [][enqueued' # enqueued =>
              /\ enqueued' = Append(enqueued, enqueued'[Len(enqueued')])
              /\ enqueued'[Len(enqueued')].tgt = curTgt
              /\ enqueued'[Len(enqueued')].win = win
              /\ Cardinality(EnqueuedOf(curTgt)) = win]_vars
    /\ [][(mpc = "lambda" /\ mpc' = "idle") =>
              /\ targets_'[curTgt + 1].windows = seqWindows
              /\ Cardinality(EnqueuedOf(curTgt)) <= seqWindows]_vars

\* add_target has returned for a sequence of which, after the consumer
\* failed, fewer sketches were enqueued than were counted
C26_Witness ==
    /\ mpc = "idle"
    /\ lastResult = "true"
    /\ ~valid
    /\ Cardinality(EnqueuedOf(curTgt)) >= 1
    /\ targets_[curTgt + 1].windows = seqWindows
    /\ targets_[curTgt + 1].windows > Cardinality(EnqueuedOf(curTgt))

\* C25: add_target always returns and wait_until_add_target_complete()
\* always returns: under fair scheduling the producer is never blocked
\* forever on a full batch queue, also when the consumer fails (becomes
\* invalid) at any point while the producer is enqueueing sketches.
C25_CallsAlwaysReturn == (mpc # "idle") ~> (mpc = "idle")

\* C30: no existing target ever has the id nulltgt (the maximum value of
\* target_id): every assigned id is smaller than max_target_count(), so a
\* nulltgt result of target_with_name always means that no target has that
\* name.
C30_NulltgtMeansNoTarget ==
    /\ \A i \in 1..Len(targets_) : i - 1 < nulltgt
    /\ \A name \in DOMAIN name2tax_ : name2tax_[name] < nulltgt
    /\ \A name \in Names :
          target_with_name(name) = nulltgt
              => \A i \in 1..Len(targets_) : targets_[i].name # name

(***************************************************************************)
(* Properties of the match accumulator (checked under SpecAcc).            *)
(***************************************************************************)
Occurrences(s, x) == Cardinality({ k \in 1..Len(s) : s[k] = x })

\* the two sequences hold the same multiset of elements
SameMultiset(a, b) ==
    /\ Len(a) = Len(b)
    /\ \A k \in 1..Len(a) : Occurrences(a, a[k]) = Occurrences(b, a[k])

\* C11: after sort() on an accumulator filled by accumulate_matches calls,
\* locs_ is non-decreasing under (tgt, win) and holds exactly the multiset
\* of locations it held before the call.
C11_SortYieldsSortedPermutation ==
    accLast = "sort" =>
        /\ IsSortedLocs(locs_)
        /\ SameMultiset(locs_, preSort)

\* C12: in every state of a match accumulator, fresh or after any calls of
\* clear(), accumulate_matches and sort(): offsets_[0] = 0, offsets_ is
\* non-decreasing, and its last entry is locs_.size().
C12_OffsetsInvariant ==
    /\ Len(offsets_) >= 1
    /\ offsets_[1] = 0
    /\ \A k \in 1..(Len(offsets_) - 1) : offsets_[k] <= offsets_[k + 1]
    /\ offsets_[Len(offsets_)] = Len(locs_)

\* the buckets found for the features of a sketch, in the order of the
\* features, without the empty ones
FoundBuckets(sk) ==
    SelectSeq([i \in 1..Len(sk) |->
                  IF sk[i] \in DOMAIN features_
                  THEN features_[sk[i]] ELSE <<>>],
              LAMBDA b : b # <<>>)

RECURSIVE Flatten(_)
Flatten(bs) ==
    IF bs = <<>> THEN <<>> ELSE Head(bs) \o Flatten(Tail(bs))

\* C28: accumulate_matches only appends to the accumulator and never
\* changes the database: for each query feature whose bucket is found and
\* non-empty it appends that bucket's locations to locs_ and then one offset
\* equal to the new locs_.size(); for a feature that is absent or has an
\* empty bucket it appends nothing; earlier entries of locs_ and offsets_,
\* the multimap and the targets are unchanged.
C28_AccumulateOnlyAppends ==
    [][(accLast' = "accumulate" /\ accOps' = accOps + 1) =>
          LET bs == FoundBuckets(accSketch')
          IN  /\ locs_' = locs_ \o Flatten(bs)
              /\ offsets_' = offsets_ \o
                    [k \in 1..Len(bs) |->
                        Len(locs_) + Len(Flatten(SubSeq(bs, 1, k)))]
              /\ features_' = features_
              /\ targets_' = targets_
              /\ name2tax_' = name2tax_]_vars

\* the last call accumulated a sketch of two features, one with a bucket of
\* locations and one absent or with an empty bucket, onto earlier entries
C28_Witness ==
    /\ accLast = "accumulate"
    /\ Len(accSketch) = 2
    /\ Len(FoundBuckets(accSketch)) = 1
    /\ Len(offsets_) >= 3
    /\ Len(locs_) > Len(Flatten(FoundBuckets(accSketch)))

(***************************************************************************)
(* Properties of the multimap under ingestion inserts (checked under       *)
(* SpecMap).                                                               *)
(***************************************************************************)
\* C13: an ingestion insert (insert followed by shrink) for a feature whose
\* bucket already holds maxLocationsPerFeature locations leaves the bucket
\* with the same first-inserted locations, drops the new location, and
\* leaves value_count unchanged.
C13_FullBucketKeepsFirst ==
    [][\A f \in MapFeatures :
          (/\ numInserts' = numInserts + 1
           /\ lastKey' = f
           /\ Len(table.locs[f]) = MaxLocsPerFeature)
          => /\ table'.locs[f] = table.locs[f]
             /\ \A k \in 1..Len(table'.locs[f]) :
                   table'.locs[f][k] # NthLocation(numInserts)
             /\ table'.value_count = table.value_count]_vars

\* the last insert went to a bucket that was full and its location is not
\* in the bucket
C13_Witness ==
    /\ lastKey \in MapFeatures
    /\ Len(table.locs[lastKey]) = MaxLocsPerFeature
    /\ table.locs[lastKey][MaxLocsPerFeature].win < numInserts - 1
    /\ table.value_count < numInserts

C22_RemovesExactlyAmbiguous ==
    [][(maxambigArg' >= 0 /\ numInserts' = numInserts) =>
          \A f \in MapFeatures :
              IF /\ f \in table.keys
                 /\ Cardinality({ table.locs[f][k].tgt :
                                     k \in 1..Len(table.locs[f]) })
                       > maxambigArg'
              THEN f \notin table'.keys
              ELSE /\ (f \in table'.keys) = (f \in table.keys)
                   /\ table'.locs[f] = table.locs[f]]_vars

\* a removal with maxambig >= 1 has erased a bucket and kept another one
C22_Witness ==
    /\ maxambigArg >= 1
    /\ removed >= 1
    /\ table.keys # {}

\* C27: in every state reachable by ingestion (each insert followed by a
\* shrink when the bucket size exceeds the cap), a bucket's capacity is 1
\* after its first insert, doubles on overflow, and never exceeds
\* maxLocationsPerFeature.
C27_CapacityWithinCap ==
    \A f \in table.keys :
        /\ table.capacity[f] >= 1
        /\ table.capacity[f] <= MaxLocsPerFeature

\* C27 (amended): a bucket's capacity is 1 after its first insert, changes
\* only when an insert finds the bucket full, then to twice its value or to
\* max_bucket_size() if that is less, holds the bucket's locations, and
\* never exceeds max_bucket_size() = max_supported_locations_per_feature()
\* + 1: the insert into a bucket that holds maxLocationsPerFeature
\* locations needs room for one more before shrink truncates it.
C27_CapacityWithinBucketSize ==
    /\ [](\A f \in table.keys :
              /\ Len(table.locs[f]) <= table.capacity[f]
              /\ table.capacity[f] <= MaxLocsPerFeature + 1)
    /\ [][\A f \in MapFeatures :
              /\ (f \notin table.keys /\ f \in table'.keys)
                    => table'.capacity[f] = 1
              /\ (/\ f \in table.keys
                  /\ f \in table'.keys
                  /\ table'.capacity[f] # table.capacity[f])
                    => /\ Len(table.locs[f]) = table.capacity[f]
                       /\ table'.capacity[f] =
                             IF 2 * table.capacity[f] > MaxLocsPerFeature + 1
                             THEN MaxLocsPerFeature + 1
                             ELSE 2 * table.capacity[f]]_vars

\* a bucket that was shrunk to maxLocationsPerFeature locations has a
\* capacity greater than maxLocationsPerFeature
C27_Witness ==
    \E f \in table.keys :
        /\ Len(table.locs[f]) = MaxLocsPerFeature
        /\ table.capacity[f] > MaxLocsPerFeature
        /\ table.value_count < numInserts

(***************************************************************************)
(* Properties of the database file (checked under SpecIO).                 *)
(***************************************************************************)
\* C15: a database written to a file and read back with scope everything
\* maps every feature to the same multiset of locations as the original,
\* and holds at every target id a target of the same name, filename,
\* record index and window count.
C15_RoundTrip ==
    (ioPc = "read" /\ what = "everything") =>
        /\ \A f \in Features : SameMultiset(db2.features[f], features_[f])
        /\ Len(db2.targets) = Len(targets_)
        /\ \A i \in 1..Len(targets_) :
              /\ db2.targets[i].name = targets_[i].name
              /\ db2.targets[i].filename = targets_[i].filename
              /\ db2.targets[i].index = targets_[i].index
              /\ db2.targets[i].windows = targets_[i].windows

\* a file was read with scope everything that holds two targets which
\* differ in every field, one bucket of several locations and no bucket
\* for the other feature
C15_Witness ==
    /\ ioPc = "read"
    /\ what = "everything"
    /\ Len(targets_) = 2
    /\ targets_[1].filename # targets_[2].filename
    /\ targets_[1].index # targets_[1].windows
    /\ targets_[2].index # targets_[2].windows
    /\ Len(features_[1]) = 0
    /\ Len(features_[2]) > 1
    /\ db2.features[2] # <<>>

(***************************************************************************)
(* Properties of add_target and of the executor's error state (checked     *)
(* under Spec).                                                            *)
(***************************************************************************)
\* the calling thread is not inside add_target
OutsideAddTarget == mpc \in {"idle", "flush", "join"}

\* C16: the N add_target calls that returned true were given the ids
\* 0, 1, ..., N-1 in call order, target_count() = N, the id of every target
\* is found under its name (target_with_name(get_target(i).name()) = i), and
\* the target of a call keeps its id and name.
C16_IdsInCallOrder ==
    /\ \A k \in 1..Len(accepted) : accepted[k].id = k - 1
    /\ OutsideAddTarget => target_count = Len(accepted)
    /\ \A k \in 1..Len(accepted) :
          /\ get_target(accepted[k].id).name = accepted[k].name
          /\ target_with_name(get_target(k - 1).name) = k - 1

\* C17: add_target called with a name that is already mapped returns false
\* and leaves the targets, the name map, the multimap and the sketches
\* handed to the executor as they were.
C17_DuplicateChangesNothing ==
    [][(calls' = calls + 1 /\ callName' \in DOMAIN name2tax_)
          => /\ lastResult' = "false"
             /\ UNCHANGED <<targets_, name2tax_, features_, inserter_,
                            enqueued, batch, queue>>]_vars

\* the last call named a target that is mapped and was refused while the
\* executor holds sketches of that target
C17_Witness ==
    /\ mpc = "idle"
    /\ calls > 1
    /\ callName \in DOMAIN name2tax_
    /\ lastResult = "false"
    /\ signal = "none"
    /\ inserter_ = "live"
    /\ enqueued # <<>>

C19_ErrorCapturedAndRethrown ==
    /\ []((inserter_ = "live" /\ \E c \in Consumers : cstate[c] = "dead")
             => ~valid)
    /\ [][(~valid /\ valid') => (inserter_ = "null" /\ inserter_' = "live")]_vars
    /\ [][(inserter_ = "live" /\ inserter_' = "null")
             => (lastResult' = "insertion_error" <=> ~valid)]_vars

\* an executor whose callback threw was destroyed and the error was raised
C19_Witness ==
    /\ everFailed
    /\ inserter_ = "null"
    /\ lastResult = "insertion_error"
    /\ \E c \in Consumers : cstate[c] = "dead"

\* C20: add_target_failed() is true exactly while there is an executor
\* whose callback has thrown; it is false before the first add_target and
\* after wait_until_add_target_complete().
C20_AddTargetFailed ==
    /\ add_target_failed <=>
          (inserter_ = "live" /\ \E c \in Consumers : cstate[c] = "dead")
    /\ calls = 0 => ~add_target_failed
    /\ (mpc = "idle" /\ lastResult \in {"waited", "insertion_error"})
          => ~add_target_failed

\* add_target_failed() is true inside an add_target call
C20_Witness ==
    /\ add_target_failed
    /\ mpc = "lambda"
    /\ win < seqWindows

(***************************************************************************)
(* Properties of the window count (checked under SpecWin).                 *)
(***************************************************************************)
\* C21: the number of window sketches of a sequence, windows being
\* [i*s, i*s+w) with i*s+w <= |seq|, is max(0, |seq| - w + 1) / s + 1 in
\* integer arithmetic, and 0 when |seq| < w.
C21_WindowCountFormula ==
    wpc = "returned" =>
        wcnt = IF seqLen < winlen THEN 0
               ELSE (IF seqLen - winlen + 1 > 0 THEN seqLen - winlen + 1
                     ELSE 0) \div winstride + 1

\* C21 (amended): the number of window sketches is (|seq| - w) / s + 1 in
\* integer arithmetic when |seq| >= w, and 0 when |seq| < w.
C21_WindowCount ==
    wpc = "returned" =>
        wcnt = IF seqLen < winlen THEN 0
               ELSE (seqLen - winlen) \div winstride + 1

\* a sequence gave several windows with a stride above 1 that divides
\* |seq| - w + 1
C21_Witness ==
    /\ wpc = "returned"
    /\ wcnt > 1
    /\ winstride > 1
    /\ (seqLen - winlen + 1) % winstride = 0

(***************************************************************************)
(* Properties of get_query_options (checked under SpecOpt).                *)
(***************************************************************************)
\* C24: covMin and hitsCutoff are returned as v * 0.01 when the given v is
\* greater than 1, and unchanged when v <= 1.
C24_PercentInterpretation ==
    optPc = "done" =>
        /\ IF covMinArg > Unit THEN covMin * 100 = covMinArg
           ELSE covMin = covMinArg
        /\ IF hitsCutoffArg > Unit THEN hitsCutoff * 100 = hitsCutoffArg
           ELSE hitsCutoff = hitsCutoffArg

\* covMin was given as exactly 1 and kept, hitsCutoff as 50 and scaled
C24_Witness ==
    /\ optPc = "done"
    /\ covMinArg = Unit
    /\ covMin = Unit
    /\ hitsCutoffArg = 50 * Unit
    /\ hitsCutoff * 2 = Unit

=============================================================================
